---- MODULE Spec2Model ----
(***************************************************************************)
(* A model of the steam_crawler crawl coordinator (src/src/main.rs):       *)
(* Crawler::crawl (the coordinator loop run by the main thread), crawl_id  *)
(* (the body of every worker thread it spawns), parse_price, and the part  *)
(* of main that reads the results out.                                     *)
(*                                                                         *)
(* Granularity: one action per statement that touches shared state.  Every *)
(* RwLock guard in the source is a temporary dropped at the end of its     *)
(* statement, so each locked access is one atomic step and the steps of    *)
(* different threads interleave freely between them.                       *)
(***************************************************************************)
EXTENDS Integers, Sequences, FiniteSets, TLC

\* ------------------------------------------------------------------------
\* Bounds of the model
\* ------------------------------------------------------------------------
MaxId == 2
MaxThreads == 3
MaxCount == 2
MaxSeeds == 2
MaxOpts == 2

AppIds == 1..MaxId

\* ------------------------------------------------------------------------
\* parse_price and the price of a page
\* ------------------------------------------------------------------------
\* A text is a sequence of one-character strings.  The texts the model uses
\* are built from digits, '.', ',', '-', the euro sign, the blank and
\* letters; none of them spells a float literal with an exponent, a sign,
\* "inf" or "nan", and none has more than two fraction digits, so a parsed
\* value is an exact number of cents.
Digits == <<"0", "1", "2", "3", "4", "5", "6", "7", "8", "9">>

IsDigit(c) == \E i \in 1..10 : Digits[i] = c

DigitVal(c) == (CHOOSE i \in 1..10 : Digits[i] = c) - 1

Upper == <<"F", "R", "E", "D", "M", "O", "P", "L", "A", "Y", "W", "I", "T", "H">>

Lower == <<"f", "r", "e", "d", "m", "o", "p", "l", "a", "y", "w", "i", "t", "h">>

ToLowerChar(c) ==
    IF \E i \in 1..Len(Upper) : Upper[i] = c
    THEN Lower[CHOOSE i \in 1..Len(Upper) : Upper[i] = c]
    ELSE c

to_lowercase(s) == [i \in 1..Len(s) |-> ToLowerChar(s[i])]

starts_with(s, p) == Len(s) >= Len(p) /\ SubSeq(s, 1, Len(p)) = p

contains(s, p) ==
    \E i \in 1..(Len(s) + 1) :
        i + Len(p) - 1 <= Len(s) /\ SubSeq(s, i, i + Len(p) - 1) = p

\* str::replace(',', ".")
ReplaceComma(s) == [i \in 1..Len(s) |-> IF s[i] = "," THEN "." ELSE s[i]]

\* str::replace('-', "")
RemoveDash(s) == SelectSeq(s, LAMBDA c : c # "-")

\* chars().take_while(|c| *c != EURO); the euro sign is the token "EUR"
RECURSIVE TakeUntilEuro(_)
TakeUntilEuro(s) ==
    IF s = <<>> \/ Head(s) = "EUR" THEN <<>>
    ELSE <<Head(s)>> \o TakeUntilEuro(Tail(s))

RECURSIVE DigitsValue(_)
DigitsValue(s) ==
    IF s = <<>> THEN 0
    ELSE 10 * DigitsValue(SubSeq(s, 1, Len(s) - 1)) + DigitVal(s[Len(s)])

AllDigits(s) == \A i \in 1..Len(s) : IsDigit(s[i])

\* str::parse::<f32>() on the texts of the model: digits with at most one
\* '.', at least one digit; the result in cents, -1 for Err.
ParseF32(s) ==
    LET dots == {i \in 1..Len(s) : s[i] = "."} IN
    IF Cardinality(dots) = 0
    THEN IF s # <<>> /\ AllDigits(s) THEN 100 * DigitsValue(s) ELSE -1
    ELSE IF Cardinality(dots) = 1
    THEN LET d == CHOOSE i \in dots : TRUE
             ip == SubSeq(s, 1, d - 1)
             fp == SubSeq(s, d + 1, Len(s))
         IN IF AllDigits(ip) /\ AllDigits(fp) /\ Len(ip) + Len(fp) > 0 /\ Len(fp) <= 2
            THEN 100 * DigitsValue(ip)
                 + (IF Len(fp) = 1 THEN 10 * DigitsValue(fp) ELSE DigitsValue(fp))
            ELSE -1
    ELSE -1

FREE == <<"f", "r", "e", "e">>

FIREFLY == <<"p", "l", "a", "y", " ", "w", "i", "t", "h", " ",
             "f", "i", "r", "e", "f", "l", "y">>

DEMO == <<"d", "e", "m", "o">>

\* parse_price, in cents
parse_price(price) ==
    LET p == to_lowercase(price) IN
    IF starts_with(p, FREE) \/ contains(p, FIREFLY) \/ contains(p, DEMO)
    THEN 0
    ELSE LET new_price == TakeUntilEuro(RemoveDash(ReplaceComma(p)))
             v == ParseF32(new_price)
         IN IF v = -1 THEN 0 ELSE v

\* The mutant of OptionPrice that prices an add-on by its displayed text.
OptionPriceNoDlc(action) ==
    IF action.text = <<>> THEN 0
    ELSE parse_price(action.text[1])

\* A purchase option (.game_purchase_action): dlc is whether the element's
\* id is "dlc_purchase_action"; text is <<>> when it has no .price element
\* and <<t>> when its first .price element has the trimmed text t.
OptionPrice(action) ==
    IF action.dlc THEN 0
    ELSE IF action.text = <<>> THEN 0
    ELSE parse_price(action.text[1])

\* The mutant of Price that prices a page without purchase options at 0.
PriceOrZero(opts) ==
    LET vals == {OptionPrice(opts[i]) : i \in 1..Len(opts)} \cup {0}
    IN <<CHOOSE v \in vals : \A u \in vals : u <= v>>

\* document.select(&purchase_selector).map(..).max_by(..): <<>> is None,
\* <<v>> is Some(v), the maximum over the options.
Price(opts) ==
    IF opts = <<>> THEN <<>>
    ELSE LET vals == {OptionPrice(opts[i]) : i \in 1..Len(opts)}
         IN <<CHOOSE v \in vals : \A u \in vals : u <= v>>

\* .app_tag elements, without the "+" button
Tags(doc) == SelectSeq(doc.tags, LAMBDA t : t # "+")

NewApp(id, name, tags, price) ==
    [id |-> id, name |-> name, tags |-> tags, price |-> price]

\* ------------------------------------------------------------------------
\* The pages of the store, as the Init of the crawl draws them
\* ------------------------------------------------------------------------
Priced == <<[dlc |-> FALSE, text |-> <<<<"4", ",", "9", "9", "EUR">>>>]>>

PageOpts == {<<>>, Priced}

\* The price texts of the price specification.
PriceTexts ==
    { <<"F", "r", "e", "e">>,
      <<"F", "r", "e", "e", " ", "T", "o", " ", "P", "l", "a", "y">>,
      <<"P", "l", "a", "y", " ", "D", "e", "m", "o">>,
      <<"4", ",", "9", "9", "EUR">>,
      <<"1", "9", ",", "9", "9", "EUR">>,
      <<"1", "2", ".", "5", "0">>,
      <<"9", ".", "9", "9">>,
      <<"5", ",", "-", "-", "EUR">>,
      <<"t", "b", "a">> }

PurchaseOptions == [dlc : BOOLEAN, text : {<<>>} \cup {<<t>> : t \in PriceTexts}]

RECURSIVE OptLists(_)
OptLists(n) ==
    IF n = 0 THEN {<<>>}
    ELSE LET shorter == OptLists(n - 1)
         IN shorter \cup {Append(s, o) : s \in {t \in shorter : Len(t) = n - 1},
                                        o \in PurchaseOptions}

RichOpts == OptLists(MaxOpts)

\* the price of each option list of the model, computed once
PagePrice == [opts \in PageOpts \cup RichOpts |-> Price(opts)]

PageNames == {<<>>, <<"Portal">>}

Pages ==
    [links : SUBSET AppIds, opts : PageOpts, name : PageNames, tags : {<<"Action", "+">>}]

RECURSIVE SeqsUpTo(_)
SeqsUpTo(n) ==
    IF n = 0 THEN {<<>>}
    ELSE LET shorter == SeqsUpTo(n - 1)
         IN shorter \cup {Append(s, i) : s \in {t \in shorter : Len(t) = n - 1}, i \in AppIds}

SeedLists == SeqsUpTo(MaxSeeds) \ {<<>>}

Policies == [kind : {"Count"}, count : 1..MaxCount] \cup {[kind |-> "Time", count |-> 0]}

\* ------------------------------------------------------------------------
\* State
\* ------------------------------------------------------------------------
VARIABLES
    web,               \* the store: the page served for each id
    initial,           \* crawl's argument: the seed ids
    time_or_count,     \* crawl's argument: the stopping policy
    ids,               \* Crawler.ids: the frontier
    should_not_crawl,  \* Crawler.should_not_crawl
    apps,              \* Crawler.apps
    threads,           \* Crawler.threads: handles, in spawn order
    workers,           \* every thread spawned so far, by handle
    pc,                \* where the coordinator (main thread) is
    id,                \* crawl's local id, <<>> when none
    len,               \* crawl's local len
    app_known,         \* crawl's local app_known
    snc,               \* crawl's local should_not_crawl
    timeUp,            \* started_at.elapsed() >= time
    output,            \* what main wrote out, <<>> before it did
    held               \* the RwLock guards each thread holds (0 is main)

vars == <<web, initial, time_or_count, ids, should_not_crawl, apps, threads,
          workers, pc, id, len, app_known, snc, timeUp, output, held>>

world == <<web, initial, time_or_count>>

locals == <<id, len, app_known, snc>>

shared == <<ids, should_not_crawl, apps>>

Init ==
    /\ web \in [AppIds -> Pages]
    /\ initial \in SeedLists
    /\ time_or_count \in Policies
    /\ ids = <<>>
    /\ should_not_crawl = <<>>
    /\ apps = {}
    /\ threads = <<>>
    /\ workers = <<>>
    /\ pc = "seed"
    /\ id = <<>>
    /\ len = 0
    /\ app_known = FALSE
    /\ snc = FALSE
    /\ timeUp = FALSE
    /\ output = <<>>
    /\ held = [t \in 0..MaxThreads |-> {}]

\* The process is alive: main has neither panicked nor returned.
Alive == pc # "panic" /\ output = <<>>

\* The mutant of Dropped that keeps the guard alive after the statement, as
\* a guard bound to a variable of the enclosing block would be.
DroppedNever(t) == held

\* Every guard is a temporary of one statement: it is dropped when the
\* statement ends.  Each action below ends its statement with this.
Dropped(t) == [held EXCEPT ![t] = {}]

\* ------------------------------------------------------------------------
\* The coordinator: Crawler::crawl, run by the main thread
\* ------------------------------------------------------------------------
\* The mutant of AdmitTime that never looks at the clock.
AdmitTimeNoClock(in_time, known, skip) == ~known /\ ~skip

\* started_at.elapsed() < time && !app_known && !should_not_crawl
AdmitTime(in_time, known, skip) == in_time /\ ~known /\ ~skip

\* The mutant of AdmitCount that stops admitting one record early.
AdmitCountShort(l, count, known, skip) == l + 1 < count /\ ~known /\ ~skip

\* len < count && !app_known && !should_not_crawl
AdmitCount(l, count, known, skip) == l < count /\ ~known /\ ~skip

\* The mutant of KeepPolling that leaves the loop at the first empty frontier.
KeepPollingNever(l, count) == FALSE

\* The mutant of KeepPolling that leaves the loop one record early.
KeepPollingShort(l, count) == l + 1 < count

\* the empty-frontier branch: len < count sleeps and continues
KeepPolling(l, count) == l < count

\* apps.iter().any(|app| app.id == id)
AppKnown(i) == \E app \in apps : app.id = i

\* The mutant of Contains that looks at the most recent entry only.
ContainsLast(v, i) == v # <<>> /\ v[Len(v)] = i

\* should_not_crawl.contains(&id)
Contains(v, i) == \E k \in 1..Len(v) : v[k] = i

\* for id in initial { ids.push_back(*id) }; started_at = Instant::now().
\* No worker exists yet, so the pushes are one step.
Seed ==
    /\ pc = "seed"
    /\ ids' = ids \o initial
    /\ pc' = "pop"
    /\ UNCHANGED <<world, should_not_crawl, apps, threads, workers, locals, timeUp, output>>
    /\ held' = Dropped(0)

\* let id = self.ids.write().unwrap().pop_front();
Pop ==
    /\ pc = "pop"
    /\ IF ids = <<>>
       THEN /\ id' = <<>>
            /\ pc' = "empty"
            /\ ids' = ids
       ELSE /\ id' = <<Head(ids)>>
            /\ ids' = Tail(ids)
            /\ pc' = IF time_or_count.kind = "Count" THEN "len" ELSE "known"
    /\ UNCHANGED <<world, should_not_crawl, apps, threads, workers, len, app_known, snc,
                   timeUp, output>>
    /\ held' = Dropped(0)

\* Count: let len = self.apps.read().unwrap().len();
ReadLen ==
    /\ pc = "len"
    /\ len' = Cardinality(apps)
    /\ pc' = "known"
    /\ UNCHANGED <<world, shared, threads, workers, id, app_known, snc, timeUp, output>>
    /\ held' = Dropped(0)

\* let app_known = self.apps.read().unwrap().iter().any(|app| app.id == id);
ReadKnown ==
    /\ pc = "known"
    /\ app_known' = AppKnown(id[1])
    /\ pc' = "snc"
    /\ UNCHANGED <<world, shared, threads, workers, id, len, snc, timeUp, output>>
    /\ held' = Dropped(0)

\* let should_not_crawl = self.should_not_crawl.read().unwrap().contains(&id);
ReadSkip ==
    /\ pc = "snc"
    /\ snc' = Contains(should_not_crawl, id[1])
    /\ pc' = "decide"
    /\ UNCHANGED <<world, shared, threads, workers, id, len, app_known, timeUp, output>>
    /\ held' = Dropped(0)

\* self.threads.push_back(std::thread::spawn(move || crawl_id(id, ..)))
Spawn(i) ==
    /\ Len(workers) < MaxThreads
    /\ workers' = Append(workers, [id |-> i, pc |-> "fetch", doc |-> <<>>])
    /\ threads' = Append(threads, Len(workers) + 1)

ResetLocals ==
    /\ id' = <<>>
    /\ len' = 0
    /\ app_known' = FALSE
    /\ snc' = FALSE

\* The if of either match arm: the clock is read here under Time.
Decide ==
    /\ pc = "decide"
    /\ IF \/ /\ time_or_count.kind = "Time"
             /\ AdmitTime(~timeUp, app_known, snc)
          \/ /\ time_or_count.kind = "Count"
             /\ AdmitCount(len, time_or_count.count, app_known, snc)
       THEN Spawn(id[1])
       ELSE UNCHANGED <<threads, workers>>
    /\ pc' = "pop"
    /\ ResetLocals
    /\ UNCHANGED <<world, shared, timeUp, output>>
    /\ held' = Dropped(0)

\* The else branch of `if let Some(id) = id`: len is read, and only under
\* Count is anything decided; under Time the loop just goes round.
Empty ==
    /\ pc = "empty"
    /\ pc' = IF time_or_count.kind = "Count"
             THEN IF KeepPolling(Cardinality(apps), time_or_count.count)
                  THEN "pop" ELSE "drain"
             ELSE "pop"
    /\ UNCHANGED <<world, shared, threads, workers, locals, timeUp, output>>
    /\ held' = Dropped(0)

Finished(w) == workers[w].pc \in {"ok", "err", "panicked"}

\* while let Some(thread) = self.threads.pop_front() { thread.join().unwrap()?; }
\* join blocks until the thread has finished; unwrap panics on a panicked
\* thread; ? returns the first Err, leaving the other handles in the queue.
Join ==
    /\ pc = "drain"
    /\ threads # <<>>
    /\ Finished(Head(threads))
    /\ threads' = Tail(threads)
    /\ pc' = CASE workers[Head(threads)].pc = "ok" -> "drain"
               [] workers[Head(threads)].pc = "err" -> "err"
               [] OTHER -> "panic"
    /\ UNCHANGED <<world, shared, workers, locals, timeUp, output>>
    /\ held' = Dropped(0)

\* Ok(())
ReturnOk ==
    /\ pc = "drain"
    /\ threads = <<>>
    /\ pc' = "ok"
    /\ UNCHANGED <<world, shared, threads, workers, locals, timeUp, output>>
    /\ held' = Dropped(0)

\* main, after crawl returned Ok or Err: crawler.apps() is read and written
\* out, and the process ends.
Emit ==
    /\ pc \in {"ok", "err"}
    /\ output = <<>>
    /\ output' = <<apps>>
    /\ UNCHANGED <<world, shared, threads, workers, pc, locals, timeUp>>
    /\ held' = Dropped(0)

Coordinator ==
    \/ Seed
    \/ Pop
    \/ ReadLen
    \/ ReadKnown
    \/ ReadSkip
    \/ Decide
    \/ Empty
    \/ Join
    \/ ReturnOk
    \/ Emit

\* The clock reaches the time budget (only the Time policy reads it).
Tick ==
    /\ Alive
    /\ time_or_count.kind = "Time"
    /\ pc # "seed"
    /\ ~timeUp
    /\ timeUp' = TRUE
    /\ UNCHANGED <<world, shared, threads, workers, pc, locals, output>>
    /\ UNCHANGED held

\* ------------------------------------------------------------------------
\* The workers: crawl_id
\* ------------------------------------------------------------------------
SetWorker(w, p, d) == [workers EXCEPT ![w] = [id |-> workers[w].id, pc |-> p, doc |-> d]]

\* ureq::get(..).call()?.into_string()? succeeds: the page is parsed.
FetchOk(w) ==
    /\ Alive
    /\ workers[w].pc = "fetch"
    /\ workers' = SetWorker(w, "links", <<web[workers[w].id]>>)
    /\ UNCHANGED <<world, shared, threads, pc, locals, timeUp, output>>
    /\ held' = Dropped(w)

\* The mutant of FetchErr that records the failed identifier as a skip.
FetchErrSkip(w) ==
    /\ Alive
    /\ workers[w].pc = "fetch"
    /\ workers' = SetWorker(w, "err", <<>>)
    /\ should_not_crawl' = Append(should_not_crawl, workers[w].id)
    /\ UNCHANGED <<world, ids, apps, threads, pc, locals, timeUp, output>>
    /\ held' = Dropped(w)

\* .call()? or .into_string()? fails: crawl_id returns the Err.
FetchErr(w) ==
    /\ Alive
    /\ workers[w].pc = "fetch"
    /\ workers' = SetWorker(w, "err", <<>>)
    /\ UNCHANGED <<world, shared, threads, pc, locals, timeUp, output>>
    /\ held' = Dropped(w)

\* The orders a HashSet<AppId> may iterate in.
Orders(S) ==
    {s \in [1..Cardinality(S) -> S] : \A i, j \in 1..Cardinality(S) : i # j => s[i] # s[j]}

\* The mutant of AppendLinks that puts the batch at the head of the frontier.
AppendLinksFront(w) ==
    /\ Alive
    /\ workers[w].pc = "links"
    /\ \E batch \in Orders(workers[w].doc[1].links) : ids' = batch \o ids
    /\ workers' = SetWorker(w, "price", workers[w].doc)
    /\ UNCHANGED <<world, should_not_crawl, apps, threads, pc, locals, timeUp, output>>
    /\ held' = Dropped(w)

\* ids.write().unwrap().append(&mut links.into_iter().collect::<VecDeque<_>>());
AppendLinks(w) ==
    /\ Alive
    /\ workers[w].pc = "links"
    /\ \E batch \in Orders(workers[w].doc[1].links) : ids' = ids \o batch
    /\ workers' = SetWorker(w, "price", workers[w].doc)
    /\ UNCHANGED <<world, should_not_crawl, apps, threads, pc, locals, timeUp, output>>
    /\ held' = Dropped(w)

\* price.is_none(): should_not_crawl.write().unwrap().push(id); return Ok(())
Skip(w) ==
    /\ Alive
    /\ workers[w].pc = "price"
    /\ PagePrice[workers[w].doc[1].opts] = <<>>
    /\ should_not_crawl' = Append(should_not_crawl, workers[w].id)
    /\ workers' = SetWorker(w, "ok", workers[w].doc)
    /\ UNCHANGED <<world, ids, apps, threads, pc, locals, timeUp, output>>
    /\ held' = Dropped(w)

\* document.select(&name_selector).next().unwrap() on a page with no
\* .apphub_AppName element: the thread panics.
NoName(w) ==
    /\ Alive
    /\ workers[w].pc = "price"
    /\ PagePrice[workers[w].doc[1].opts] # <<>>
    /\ workers[w].doc[1].name = <<>>
    /\ workers' = SetWorker(w, "panicked", workers[w].doc)
    /\ UNCHANGED <<world, shared, threads, pc, locals, timeUp, output>>
    /\ held' = Dropped(w)

\* apps.write().unwrap().insert(App::new(id, name, tags, price)); Ok(())
Insert(w) ==
    /\ Alive
    /\ workers[w].pc = "price"
    /\ PagePrice[workers[w].doc[1].opts] # <<>>
    /\ workers[w].doc[1].name # <<>>
    /\ LET doc == workers[w].doc[1]
       IN apps' = apps \cup {NewApp(workers[w].id, doc.name[1], Tags(doc), PagePrice[doc.opts][1])}
    /\ workers' = SetWorker(w, "ok", workers[w].doc)
    /\ UNCHANGED <<world, ids, should_not_crawl, threads, pc, locals, timeUp, output>>
    /\ held' = Dropped(w)

Worker(w) ==
    \/ FetchOk(w)
    \/ FetchErr(w)
    \/ AppendLinks(w)
    \/ Skip(w)
    \/ NoName(w)
    \/ Insert(w)

Next ==
    \/ Coordinator
    \/ Tick
    \/ \E w \in 1..Len(workers) : FetchOk(w)
    \/ \E w \in 1..Len(workers) : FetchErr(w)
    \/ \E w \in 1..Len(workers) : AppendLinks(w)
    \/ \E w \in 1..Len(workers) : Skip(w)
    \/ \E w \in 1..Len(workers) : NoName(w)
    \/ \E w \in 1..Len(workers) : Insert(w)

Spec == Init /\ [][Next]_vars

\* ------------------------------------------------------------------------
\* The lock-level specification: the same statements, with the acquisition
\* of each statement's RwLock guard as a step of its own.  A statement runs
\* once its thread holds the guard it needs, and ends by dropping it.
\* ------------------------------------------------------------------------
\* The guard the coordinator's next statement takes: <<lock, mode>>.
CoordNeeds ==
    CASE pc \in {"seed", "pop"} -> {<<"ids", "write">>}
      [] pc \in {"len", "known", "empty"} -> {<<"apps", "read">>}
      [] pc = "snc" -> {<<"should_not_crawl", "read">>}
      [] pc \in {"ok", "err"} -> {<<"apps", "read">>}
      [] OTHER -> {}

\* The mutant of WorkerNeeds that takes the frontier's lock before the fetch.
WorkerNeedsEarly(w) ==
    CASE workers[w].pc \in {"fetch", "links"} -> {<<"ids", "write">>}
      [] workers[w].pc = "price" ->
            IF PagePrice[workers[w].doc[1].opts] = <<>>
            THEN {<<"should_not_crawl", "write">>}
            ELSE IF workers[w].doc[1].name = <<>> THEN {}
            ELSE {<<"apps", "write">>}
      [] OTHER -> {}

\* The guard a worker's next statement takes: none for the fetch and the
\* parsing, ids for the append, should_not_crawl for the skip, apps for the
\* insert.
WorkerNeeds(w) ==
    CASE workers[w].pc = "links" -> {<<"ids", "write">>}
      [] workers[w].pc = "price" ->
            IF PagePrice[workers[w].doc[1].opts] = <<>>
            THEN {<<"should_not_crawl", "write">>}
            ELSE IF workers[w].doc[1].name = <<>> THEN {}
            ELSE {<<"apps", "write">>}
      [] OTHER -> {}

Needs(t) == IF t = 0 THEN CoordNeeds ELSE WorkerNeeds(t)

\* RwLock: a write guard excludes every other guard of the same lock.
Conflict(g, h) == g[1] = h[1] /\ (g[2] = "write" \/ h[2] = "write")

BlockedBy(t, u) ==
    /\ t # u
    /\ \E g \in Needs(t) \ held[t] : \E h \in held[u] : Conflict(g, h)

Live(t) == t = 0 \/ t \in 1..Len(workers)

\* .read() / .write(): blocks until no conflicting guard is held.
Acquire(t) ==
    /\ Alive
    /\ Live(t)
    /\ Needs(t) \ held[t] # {}
    /\ \A u \in 0..Len(workers) : ~BlockedBy(t, u)
    /\ held' = [held EXCEPT ![t] = held[t] \cup Needs(t)]
    /\ UNCHANGED <<world, shared, threads, workers, pc, locals, timeUp, output>>

Holds(t) == Needs(t) \subseteq held[t]

LockNext ==
    \/ \E t \in 0..MaxThreads : Acquire(t)
    \/ Holds(0) /\ Coordinator
    \/ Tick
    \/ \E w \in 1..Len(workers) : Holds(w) /\ FetchOk(w)
    \/ \E w \in 1..Len(workers) : Holds(w) /\ FetchErr(w)
    \/ \E w \in 1..Len(workers) : Holds(w) /\ AppendLinks(w)
    \/ \E w \in 1..Len(workers) : Holds(w) /\ Skip(w)
    \/ \E w \in 1..Len(workers) : Holds(w) /\ NoName(w)
    \/ \E w \in 1..Len(workers) : Holds(w) /\ Insert(w)

LockInit ==
    /\ Init
    /\ \A i \in AppIds : \A j \in web[i].links : j > i

LockSpec == LockInit /\ [][LockNext]_vars

\* ------------------------------------------------------------------------
\* The specification with a store that changes: between two fetches the
\* store may give a product another display name.  Its pages have no links.
\* ------------------------------------------------------------------------
\* The page ureq::get returns for an id is whatever the store serves then.
Edit(i) ==
    /\ Alive
    /\ pc # "seed"
    /\ web[i].name = <<"Portal">>
    /\ web' = [web EXCEPT ![i].name = <<"Portal 2">>]
    /\ UNCHANGED <<initial, time_or_count, shared, threads, workers, pc, locals,
                   timeUp, output, held>>

EditNext ==
    \/ Next
    \/ \E i \in AppIds : Edit(i)

EditInit ==
    /\ Init
    /\ \A i \in AppIds : web[i].links = {}

EditSpec == EditInit /\ [][EditNext]_vars

\* ------------------------------------------------------------------------
\* The price specification: crawls of one seed whose page carries any list
\* of up to MaxOpts purchase options over PriceTexts.
\* ------------------------------------------------------------------------
PriceInit ==
    /\ web \in [AppIds -> [links : {{}}, opts : RichOpts, name : PageNames,
                           tags : {<<"Action", "+">>}]]
    /\ \A i \in AppIds \ {1} : web[i].opts = <<>> /\ web[i].name = <<>>
    /\ initial = <<1>>
    /\ time_or_count \in Policies
    /\ ids = <<>>
    /\ should_not_crawl = <<>>
    /\ apps = {}
    /\ threads = <<>>
    /\ workers = <<>>
    /\ pc = "seed"
    /\ id = <<>>
    /\ len = 0
    /\ app_known = FALSE
    /\ snc = FALSE
    /\ timeUp = FALSE
    /\ output = <<>>
    /\ held = [t \in 0..MaxThreads |-> {}]

PriceSpec == PriceInit /\ [][Next]_vars

\* ------------------------------------------------------------------------
\* The fair specification: every thread that can take a step eventually
\* takes one (the threads are OS threads), and a fetch eventually answers.
\* Its crawls start from one seed over a store whose links only lead to
\* larger ids, so that MaxThreads never holds a spawn back.
\* ------------------------------------------------------------------------
WorkerStep(w) == w \in 1..Len(workers) /\ Worker(w)

FairInit ==
    /\ Init
    /\ Len(initial) = 1
    /\ \A i \in AppIds : \A j \in web[i].links : j > i

Fairness ==
    /\ WF_vars(Coordinator)
    /\ \A w \in 1..MaxThreads : WF_vars(WorkerStep(w))

FairSpec == FairInit /\ [][Next]_vars /\ Fairness

\* The fair specification over every seed list and every link graph of
\* Init in which product 1 is crawlable.
CrawlableInit ==
    /\ Init
    /\ web[1].opts # <<>>
    /\ web[1].name # <<>>

CrawlableFairSpec == CrawlableInit /\ [][Next]_vars /\ Fairness

\* ------------------------------------------------------------------------
\* Vocabulary of the claims
\* ------------------------------------------------------------------------
Returned == pc \in {"ok", "err"}

IsCount == time_or_count.kind = "Count"

IsTime == time_or_count.kind = "Time"

Spawning == Len(workers') > Len(workers)

SomeFetchFailed == \E w \in 1..Len(workers) : workers[w].pc = "err"

SomePanic == pc = "panic" \/ \E w \in 1..Len(workers) : workers[w].pc = "panicked"

SeedSet == {initial[k] : k \in 1..Len(initial)}

RECURSIVE Closure(_)
Closure(S) ==
    LET T == S \cup UNION {web[i].links : i \in S}
    IN IF T = S THEN S ELSE Closure(T)

\* the ids reachable from the seeds through the links of the pages
Reachable == Closure(SeedSet)

\* a product that has a price and a name
Crawlable(i) == web[i].opts # <<>> /\ web[i].name # <<>>

ReachableCrawlable == {i \in Reachable : Crawlable(i)}

Min(a, b) == IF a < b THEN a ELSE b

\* the fair specification never needs more than MaxThreads threads
FairNeverHeldBack ==
    (pc = "decide" /\ (AdmitTime(~timeUp, app_known, snc) \/ AdmitCount(len, time_or_count.count, app_known, snc)))
        => Len(workers) < MaxThreads

\* ------------------------------------------------------------------------
\* Claims
\* ------------------------------------------------------------------------

\* C1 (as claimed): no identifier is passed to a fetch more than once
\* during one crawl: no two worker threads are spawned for the same id.
C1_FetchedAtMostOnce ==
    \A v, w \in 1..Len(workers) : v # w => workers[v].id # workers[w].id

\* C2 (as claimed): under Count(n), at every step that spawns a worker the
\* results set holds fewer than n records.
C2_NoSpawnAtCount ==
    [][(IsCount /\ Spawning) => Cardinality(apps) < time_or_count.count]_vars

\* C3 (as claimed): under Count(n), when no fetch fails (and no page is
\* malformed), the crawl eventually returns.
C3_CountTerminates ==
    (IsCount /\ pc = "pop") ~> (Returned \/ SomeFetchFailed \/ SomePanic)

\* C4 (as claimed): whenever crawl returns under Count(n), results holds
\* exactly min(n, number of reachable crawlable products) records.
C4_ExactlyMin ==
    (IsCount /\ Returned) =>
        Cardinality(apps) = Min(time_or_count.count, Cardinality(ReachableCrawlable))

\* C4 (amended): whenever crawl returns under Count(n), results holds at
\* least n records, and every record is of a crawlable product reachable
\* from the seeds.
C4_AtLeastCount ==
    (IsCount /\ Returned) =>
        /\ Cardinality(apps) >= time_or_count.count
        /\ \A app \in apps : app.id \in ReachableCrawlable

\* C4 witness: a crawl under Count(n) has returned with more than n records.
C4_Witness ==
    IsCount /\ Returned /\ Cardinality(apps) > time_or_count.count

\* C5 (as claimed): under Duration(d), once the elapsed time has reached d
\* the crawl eventually returns.
C5_TimeTerminates == (IsTime /\ timeUp) ~> Returned

\* C6: under Duration(d), a step that spawns a worker is taken only while
\* the elapsed time is below d, and the elapsed time never goes back below
\* d; so an id popped at or after the deadline is never given a worker.
C6_NoSpawnAfterDeadline ==
    [][IsTime => ((Spawning => ~timeUp) /\ (timeUp => timeUp'))]_vars

\* C6 witness: the deadline has passed, the frontier is drained, and a seed
\* that was neither fetched nor known was popped and dropped without a
\* worker.
C6_Witness ==
    /\ IsTime /\ timeUp /\ pc = "pop" /\ ids = <<>>
    /\ \E i \in SeedSet :
        /\ \A w \in 1..Len(workers) : workers[w].id # i
        /\ ~AppKnown(i)
        /\ ~Contains(should_not_crawl, i)

\* C7 (as claimed): whenever crawl has returned, with Ok or with an error,
\* every thread it spawned has finished.
C7_AllJoinedAtReturn ==
    Returned => \A w \in 1..Len(workers) : Finished(w)

\* C8 (as claimed): if a worker's fetch fails, the crawl eventually returns
\* the error to its caller and the records are written out.
C8_ErrorPropagates ==
    SomeFetchFailed ~> (pc = "err" /\ output # <<>>)

\* C9 (as claimed): a page that lacks an expected element panics neither
\* the worker nor the coordinator.
C9_NoPanic == ~SomePanic

C11_OneRecordPerId ==
    \A a, b \in apps : a.id = b.id => a = b

\* the spawn the coordinator decided on is held back by MaxThreads
Saturated == pc = "decide" /\ Len(workers) = MaxThreads

\* the number of times id i enters the frontier: as a seed, and once for
\* every reachable page that links to it
Sources(i) ==
    Cardinality({k \in 1..Len(initial) : initial[k] = i})
        + Cardinality({j \in Reachable : i \in web[j].links})

EnqueuedOnce == \A i \in Reachable : Sources(i) = 1

\* every reachable product is crawlable and n is their number
FullCrawl ==
    /\ IsCount
    /\ \A i \in Reachable : Crawlable(i)
    /\ time_or_count.count = Cardinality(Reachable)

\* C12 (as claimed): when every product reachable from the seeds is
\* crawlable, no fetch fails and n is the number of reachable products, a
\* crawl under Count(n) that returns Ok holds exactly one record per
\* reachable id, with its price, and the frontier is empty.
C12_FullCrawl ==
    (FullCrawl /\ pc = "ok")
        => /\ apps = {NewApp(i, web[i].name[1], <<"Action">>, 499) : i \in Reachable}
           /\ ids = <<>>

\* C12 (amended): under the same conditions the crawl returns Ok with
\* exactly one record per reachable id, each with its price; the frontier
\* is then empty when every reachable id enters the frontier only once.
C12_FullCrawlReturns ==
    (FullCrawl /\ pc = "pop")
        ~> \/ SomeFetchFailed
           \/ Saturated
           \/ /\ FullCrawl
              /\ pc = "ok"
              /\ apps = {NewApp(i, web[i].name[1], <<"Action">>, 499) : i \in Reachable}
              /\ EnqueuedOnce => ids = <<>>

\* C12 witness: a crawl from one seed that links to the other product has
\* returned Ok with both records and an empty frontier.
C12_Witness ==
    /\ FullCrawl /\ pc = "ok" /\ EnqueuedOnce
    /\ Cardinality(Reachable) = 2 /\ Len(initial) = 1
    /\ Cardinality(apps) = 2 /\ ids = <<>>

\* What each price text is, and the number it shows in cents.
Catalogue ==
    { [text |-> <<"F", "r", "e", "e">>, kind |-> "free", cents |-> 0],
      [text |-> <<"F", "r", "e", "e", " ", "T", "o", " ", "P", "l", "a", "y">>,
       kind |-> "free", cents |-> 0],
      [text |-> <<"P", "l", "a", "y", " ", "D", "e", "m", "o">>, kind |-> "demo", cents |-> 0],
      [text |-> <<"4", ",", "9", "9", "EUR">>, kind |-> "number", cents |-> 499],
      [text |-> <<"1", "9", ",", "9", "9", "EUR">>, kind |-> "number", cents |-> 1999],
      [text |-> <<"1", "2", ".", "5", "0">>, kind |-> "number", cents |-> 1250],
      [text |-> <<"9", ".", "9", "9">>, kind |-> "number", cents |-> 999],
      [text |-> <<"5", ",", "-", "-", "EUR">>, kind |-> "number", cents |-> 500],
      [text |-> <<"t", "b", "a">>, kind |-> "unparseable", cents |-> 0] }

Entry(t) == CHOOSE e \in Catalogue : e.text = t

\* the contribution of a purchase option, as the claim states it
Contribution(o) ==
    IF o.dlc THEN 0
    ELSE IF o.text = <<>> THEN 0
    ELSE IF Entry(o.text[1]).kind = "number" THEN Entry(o.text[1]).cents
    ELSE 0

IsMaxContribution(p, opts) ==
    /\ \E k \in 1..Len(opts) : Contribution(opts[k]) = p
    /\ \A k \in 1..Len(opts) : Contribution(opts[k]) <= p

\* C13: the price stored in a record is the maximum contribution over the
\* purchase options of its page: 0 for an add-on whatever its text, 0 for
\* a free or demo text, 0 for an unparseable text, the number otherwise.
C13_PriceIsMaxContribution ==
    \A app \in apps : IsMaxContribution(app.price, web[app.id].opts)

\* C13 witness: a recorded product whose add-on option shows a higher
\* number than the option that gave the price.
C13_Witness ==
    \E app \in apps :
        LET opts == web[app.id].opts IN
        /\ Len(opts) = 2
        /\ opts[1].dlc /\ opts[1].text = << <<"1", "9", ",", "9", "9", "EUR">> >>
        /\ ~opts[2].dlc /\ opts[2].text = << <<"4", ",", "9", "9", "EUR">> >>
        /\ app.price = 499

\* the coordinator is past the loop of Crawler::crawl
LeftLoop(p) == p \in {"drain", "ok", "err", "panic"}

\* C14: under Count(n) the coordinator leaves the loop only by a step taken
\* right after a pop that saw the frontier empty, with results holding at
\* least n records at that step; an empty frontier with fewer records sends
\* it back to the pop; so results holds at least n records from the break on.
C14_BreakOnlyAtCount ==
    [][IsCount =>
        /\ (pc # "empty" /\ pc' = "empty") => (pc = "pop" /\ ids = <<>>)
        /\ (~LeftLoop(pc) /\ LeftLoop(pc')) =>
              /\ pc = "empty" /\ pc' = "drain" /\ id = <<>>
              /\ Cardinality(apps) >= time_or_count.count
        /\ (pc = "empty" /\ Cardinality(apps) < time_or_count.count) => pc' \in {"empty", "pop"}
        /\ LeftLoop(pc') => Cardinality(apps') >= time_or_count.count]_vars

\* C14 witness: the coordinator has broken out of the loop under Count(n)
\* while a worker is still running and none has been joined.
C14_Witness ==
    /\ IsCount
    /\ pc = "drain"
    /\ Len(threads) = Len(workers)
    /\ \E w \in 1..Len(workers) : ~Finished(w)
    /\ Cardinality(apps) >= time_or_count.count

\* the worker w takes a step from position p to position q
Moves(w, p, q) ==
    /\ w \in 1..Len(workers)
    /\ workers[w].pc = p
    /\ workers'[w].pc = q

\* s is the identifiers of S, each once, in some order
IsBatchOf(s, S) ==
    /\ Len(s) = Cardinality(S)
    /\ {s[k] : k \in 1..Len(s)} = S

HasRecord(i) == \E app \in apps : app.id = i

IsSkipped(i) == \E k \in 1..Len(should_not_crawl) : should_not_crawl[k] = i

\* the coordinator is between the pop and the if of one admission check
Checking == pc \in {"len", "known", "snc", "decide"}

\* C16: an identifier that has a record or is skipped keeps it; an
\* admission check is for the identifier that was popped, from the pop to
\* the if; its read of results finds the record of an identifier that has
\* one, its read of the skipped set finds an identifier that is in it, and
\* what was found is kept until the if; a worker is spawned only by the if,
\* for the identifier of the check, and only when neither read found it.
\* So a check begun for a resolved identifier spawns no worker, under
\* either policy.
C16_ResolvedIsRefused ==
    [][/\ \A i \in AppIds : (HasRecord(i) => HasRecord(i)') /\ (IsSkipped(i) => IsSkipped(i)')
       /\ (pc = "pop" /\ pc' # "pop") => (pc' = "empty" \/ (pc' \in {"len", "known"} /\ id' = <<Head(ids)>>))
       /\ (Checking /\ pc' # pc) =>
             /\ pc' = CASE pc = "len" -> "known" [] pc = "known" -> "snc"
                         [] pc = "snc" -> "decide" [] OTHER -> "pop"
             /\ pc # "decide" => id' = id
       /\ (pc = "known" /\ pc' = "snc") => (app_known' = HasRecord(id[1]))
       /\ (pc = "snc" /\ pc' = "decide") => (snc' = IsSkipped(id[1]) /\ app_known' = app_known)
       /\ Spawning =>
             /\ pc = "decide" /\ ~app_known /\ ~snc
             /\ workers' = Append(workers, [id |-> id[1], pc |-> "fetch", doc |-> <<>>])]_vars

\* C16 witness: an admission check for an identifier that has a record, or
\* is skipped, is at its if with the budget not yet used up, and it found
\* the identifier.
C16_Witness ==
    /\ pc = "decide"
    /\ \/ IsCount /\ len < time_or_count.count
       \/ IsTime /\ ~timeUp
    /\ \/ HasRecord(id[1]) /\ app_known /\ ~snc
       \/ IsSkipped(id[1]) /\ snc /\ ~app_known

\* the worker executions that are outstanding: spawned and not finished
Outstanding == Cardinality({w \in 1..Len(workers) : ~Finished(w)})

\* C17 (as claimed): some maximum below the number of workers a crawl
\* spawns in all bounds the workers outstanding at the same time.
C17_OutstandingBelowMaximum == \E maximum \in 1..(MaxThreads - 1) : Outstanding <= maximum

\* the guards on ids, should_not_crawl and apps
Guards == {"ids", "should_not_crawl", "apps"} \X {"read", "write"}

\* C18: a worker whose fetch is in progress holds no guard, so neither the
\* coordinator nor another worker waits for a guard because of it.
C18_NoGuardWhileFetching ==
    \A w \in 1..Len(workers) :
        workers[w].pc = "fetch" =>
            /\ held[w] = {}
            /\ \A t \in 0..Len(workers) : ~BlockedBy(t, w)

\* C18 witness: while one worker is fetching, the coordinator holds the
\* guard of its statement and another worker holds the write guard of its.
C18_Witness ==
    \E v, w \in 1..Len(workers) :
        /\ workers[w].pc = "fetch"
        /\ held[0] # {}
        /\ \E g \in held[v] : g[2] = "write"

\* the threads of S wait for one another: each is kept from its guard by a
\* guard a thread of S holds
WaitCycle(S) == S # {} /\ \A t \in S : \E u \in S : BlockedBy(t, u)

\* C19: no thread, coordinator or worker, holds more than one guard at a
\* time; a thread that waits for a guard holds none; and no set of threads
\* wait for one another.
C19_OneGuardNoDeadlock ==
    /\ \A t \in 0..MaxThreads :
          /\ held[t] \subseteq Guards
          /\ Cardinality(held[t]) <= 1
          /\ Cardinality({g[1] : g \in held[t]}) <= 1
    /\ \A t, u \in 0..Len(workers) : BlockedBy(t, u) => held[t] = {}
    /\ \A S \in SUBSET (0..Len(workers)) : ~WaitCycle(S)

\* C19 witness: a worker waits for the guard the coordinator holds while
\* another worker holds a guard on another collection.
C19_Witness ==
    \E v, w \in 1..Len(workers) :
        /\ BlockedBy(w, 0)
        /\ v # w
        /\ held[v] # {}
        /\ \A g \in held[v] : \A h \in held[0] : g[1] # h[1]

\* a worker for i succeeded: it recorded a product or a skip
Succeeded(i) == \E w \in 1..Len(workers) : workers[w].id = i /\ workers[w].pc = "ok"

\* a fetch of i failed
Failed(i) == \E w \in 1..Len(workers) : workers[w].id = i /\ workers[w].pc = "err"

\* the budget of the policy is not used up, as the if of the check reads it
BudgetLeft ==
    \/ IsCount /\ len < time_or_count.count
    \/ IsTime /\ ~timeUp

\* C20: the step by which a worker's fetch fails changes neither the
\* frontier nor the skipped set nor results, and the worker takes no step
\* after it; an identifier has a record or is skipped only when a worker
\* for it succeeded; and an admission check for an identifier whose fetch
\* failed and for which no worker succeeded, made with budget left, spawns
\* a worker for it again.
C20_FailedFetchChangesNothing ==
    [][/\ \A w \in 1..Len(workers) :
             /\ (workers[w].pc = "fetch" /\ workers'[w].pc \notin {"fetch", "links"})
                   => (workers'[w].pc = "err" /\ UNCHANGED shared)
             /\ workers[w].pc = "err" => workers'[w] = workers[w]
       /\ \A i \in AppIds : (HasRecord(i)' \/ IsSkipped(i)') => Succeeded(i)'
       /\ (pc = "decide" /\ pc' # pc /\ Failed(id[1]) /\ ~Succeeded(id[1]) /\ BudgetLeft)
             => workers' = Append(workers, [id |-> id[1], pc |-> "fetch", doc |-> <<>>])]_vars

\* C20 witness: the fetch of an identifier failed, no other worker for it
\* exists, and the identifier has been popped again and checked with budget
\* left: it is neither known nor skipped.
C20_Witness ==
    /\ pc = "decide"
    /\ BudgetLeft
    /\ ~app_known /\ ~snc
    /\ ~HasRecord(id[1]) /\ ~IsSkipped(id[1])
    /\ Failed(id[1])
    /\ \A w \in 1..Len(workers) : workers[w].id = id[1] => workers[w].pc = "err"

====
